---- MODULE Spec2Model ----
(***************************************************************************)
(* Model of package listeners (listeners.go): a ListenerManager[T] holding *)
(* a map of listeners keyed by ListenerID, the registration order, the ID  *)
(* counter and a sync.RWMutex, used by several goroutines.                 *)
(*                                                                         *)
(* Every goroutine runs one call at a time.  A call is split at the lock   *)
(* operations: the code between Lock/RLock and Unlock/RUnlock runs with    *)
(* the lock held; one iteration of an invocation loop is one step.         *)
(***************************************************************************)
EXTENDS Integers, Sequences, FiniteSets, TLC

\* ---------------------------------------------------------------- bounds

\* Add is not called any more once this many Add calls were issued.
MaxAdds == 3

\* The same, where a single goroutine uses the manager.
MaxSeqAdds == 4

\* The same, where callbacks call into the manager too.
MaxReentrantAdds == 1

\* A callback's call into the manager is nested in at most this many passes.
MaxDepth == 1

\* The goroutines calling into the one manager.
Threads == {"t1", "t2"}

\* The callback values callers register (T is opaque to the manager).
Callbacks == {"f"}

\* ------------------------------------------------------------- constants

Continue == 0
Changed == 1
Handled == 2
Stop == 3

\* The results an invoke function hands back: the four declared values.
PluginResult == {Continue, Changed, Handled, Stop}

Pre == 0
Post == 1

HookMode == {Pre, Post}

\* ListenerID = int32
MaxInt32 == 2147483647
MinInt32 == -MaxInt32 - 1

\* The zero value of T, which a map lookup of a missing key yields.
ZeroCallback == "zero"

\* ------------------------------------------------------------ helpers

\* make(map[ListenerID]listenerHolder[T])
EmptyMap == [k \in {} |-> [callback |-> ZeroCallback, mode |-> Pre]]

\* listenerHolder[T]{callback, mode}
listenerHolder(callback, mode) == [callback |-> callback, mode |-> mode]

\* cm.listeners[id] = h
MapPut(m, k, h) == [x \in (DOMAIN m) \cup {k} |-> IF x = k THEN h ELSE m[x]]

\* delete(cm.listeners, index): no effect when the key is absent
MapDelete(m, k) == [x \in (DOMAIN m) \ {k} |-> m[x]]

\* holder := cm.listeners[idx]: the zero holder (mode 0 = Pre) when absent
MapGet(m, k) ==
    IF k \in DOMAIN m THEN m[k] ELSE listenerHolder(ZeroCallback, 0)

\* A counter that is not advanced.
IdReused(i) == i

\* cm.id++ on an int32
NextId(i) == IF i + 1 > MaxInt32 THEN MinInt32 ELSE i + 1

\* An order that grows at the front.
AppendFront(s, i) == <<i>> \o s

\* append(cm.order, id)
AppendOrder(s, i) == Append(s, i)

Range(s) == {s[k] : k \in 1..Len(s)}

\* Maximum of a finite non-empty set of integers.
SetMax(S) == CHOOSE m \in S : \A x \in S : x <= m

\* The IDs of s that have an entry of the given mode in m, in the order of s.
RECURSIVE SelectIds(_, _, _)
SelectIds(s, m, mode) ==
    IF s = <<>> THEN <<>>
    ELSE IF s[1] \in DOMAIN m /\ m[s[1]].mode = mode
         THEN <<s[1]>> \o SelectIds(Tail(s), m, mode)
         ELSE SelectIds(Tail(s), m, mode)

\* s without the elements equal to x, the others in the order of s.
RECURSIVE Without(_, _)
Without(s, x) ==
    IF s = <<>> THEN <<>>
    ELSE IF s[1] = x THEN Without(Tail(s), x)
         ELSE <<s[1]>> \o Without(Tail(s), x)

\* ------------------------------------------------ Remove's order filter

\* The closure handed to slices.DeleteFunc,
\*     func(i ListenerID) bool { return cm.order[i] == index },
\* called with an ELEMENT i of the slice: it indexes cm.order (the slice being
\* filtered in place, still with its old length) by that element.  An element
\* that is no index of cm.order makes the index expression panic.
DelOutcome(arr, i, index) ==
    IF i < 0 \/ i >= Len(arr) THEN "panic"
    ELSE IF arr[i + 1] = index THEN "delete" ELSE "keep"

\* slices.DeleteFunc(cm.order, del): reads the elements left to right (j),
\* asks del about each once, and copies the kept ones down to position i of
\* the same backing array (before the first deletion i = j and the copy
\* rewrites an element with itself).  Result: whether del panicked, and the
\* contents of cm.order afterwards: the kept prefix when DeleteFunc returned
\* and was assigned, the partly compacted array under the unchanged slice
\* header when it panicked.
RECURSIVE DeleteFrom(_, _, _, _)
DeleteFrom(arr, index, i, j) ==
    IF j >= Len(arr) THEN [panic |-> FALSE, order |-> SubSeq(arr, 1, i)]
    ELSE LET v == arr[j + 1]
             o == DelOutcome(arr, v, index)
         IN  IF o = "panic" THEN [panic |-> TRUE, order |-> arr]
             ELSE IF o = "keep"
                  THEN DeleteFrom([arr EXCEPT ![i + 1] = v], index, i + 1, j + 1)
                  ELSE DeleteFrom(arr, index, i, j + 1)

DeleteFunc(s, index) == DeleteFrom(s, index, 0, 0)

\* ------------------------------------------------------- invocation loop

\* An aggregate that keeps the last result.
LastResult(finalResult, result) == result

\* if result > finalResult { finalResult = result }
MaxResult(finalResult, result) ==
    IF result > finalResult THEN result ELSE finalResult

\* A loop that breaks on Stop only.
BreakOnStop(finalResult) == finalResult >= Stop

\* if finalResult >= Handled { break }
ShouldBreak(finalResult) == finalResult >= Handled

\* A pass without the mode test.
AnyMode(holder) == TRUE

\* if holder.mode == Pre
IsPre(holder) == holder.mode = Pre

\* if holder.mode == Post
IsPost(holder) == holder.mode = Post

\* ------------------------------------------------------------- the lock

\* sync.RWMutex: writer is set from the moment a Lock call has announced
\* itself (it then waits for the active readers to leave) until its Unlock;
\* readers counts the RLock calls not yet matched by RUnlock.
NewRWMutex == [writer |-> FALSE, readers |-> 0]

\* Lock proceeds past the writers' mutex when no other writer is pending or
\* inside.
CanBeginLock(m) == ~m.writer

\* A Lock that does not wait for the readers.
IgnoreReaders(m) == TRUE

\* Lock returns once the active readers have left.
CanLock(m) == m.readers = 0

\* RLock returns unless a writer is pending or inside.
CanRLock(m) == ~m.writer

\* ------------------------------------------------------------- the state

VARIABLES
    listeners,  \* cm.listeners: ListenerID -> listenerHolder
    order,      \* cm.order
    id,         \* cm.id
    mu,         \* cm.mu
    pc,         \* where each goroutine is in its current call
    local,      \* each goroutine's arguments and local variables, and what
                \* its current call has observed so far
    returned,   \* history: the IDs Add has returned, in the order of return
    freed       \* history: the IDs whose map entry a Remove has deleted

vars == <<listeners, order, id, mu, pc, local, returned, freed>>

\* The locals of a goroutine that is in no call.
NoCall ==
    [op |-> "none",
     callback |-> ZeroCallback, mode |-> Pre,   \* Add's arguments
     index |-> 0,                               \* Remove's argument
     lid |-> 0,                                 \* Add's local id
     rng |-> <<>>, pos |-> 0,                   \* range cm.order and its position
     finalResult |-> Continue,                  \* InvokePre's local
     calls |-> <<>>,     \* the holders handed to invokeFunc in this pass
     results |-> <<>>,   \* what invokeFunc returned for them (InvokePre)
     seen |-> {},        \* the IDs Add had returned when this call was made
     pre |-> [listeners |-> EmptyMap, order |-> <<>>, id |-> 0],
                         \* the manager as this call found it under the lock
     outer |-> <<>>]     \* for a call made by a callback: the pass that is
                         \* running the callback (its pc and its locals)

\* NewListener[T](): an empty map, no order, id 0, an unlocked mutex.
Init ==
    /\ listeners = EmptyMap
    /\ order = <<>>
    /\ id = 0
    /\ mu = NewRWMutex
    /\ pc = [t \in Threads |-> "idle"]
    /\ local = [t \in Threads |-> NoCall]
    /\ returned = <<>>
    /\ freed = {}

Free(t) == pc[t] = "idle"

\* Where a call goes when it returns, and the locals found there: to the
\* goroutine's caller, or into the callback that made the call.
ReturnPc(t) ==
    IF local[t].outer = <<>> THEN "idle" ELSE local[t].outer[1].pc
ReturnLocal(t) ==
    IF local[t].outer = <<>> THEN NoCall ELSE local[t].outer[1].local

Snapshot == [listeners |-> listeners, order |-> order, id |-> id]

\* Add calls issued so far: the ones that have taken their ID and the ones
\* that are still on their way to the lock.
AddsIssued ==
    id + Cardinality({t \in Threads : pc[t] \in {"add_lock", "add_wait"}})

\* ------------------------------------------------------------------- Add

\* A goroutine calls Add(callback, mode).
CallAdd(t, callback, mode) ==
    /\ Free(t)
    /\ pc' = [pc EXCEPT ![t] = "add_lock"]
    /\ local' = [local EXCEPT ![t] =
                    [NoCall EXCEPT !.op = "Add", !.callback = callback,
                                   !.mode = mode, !.seen = Range(returned)]]
    /\ UNCHANGED <<listeners, order, id, mu, returned, freed>>

\* A goroutine calls Remove(index).
CallRemove(t, index) ==
    /\ Free(t)
    /\ pc' = [pc EXCEPT ![t] = "rem_lock"]
    /\ local' = [local EXCEPT ![t] =
                    [NoCall EXCEPT !.op = "Remove", !.index = index]]
    /\ UNCHANGED <<listeners, order, id, mu, returned, freed>>

\* cm.mu.Lock(), first half: the call becomes the pending writer.
LockBegin(t) ==
    /\ pc[t] \in {"add_lock", "rem_lock"}
    /\ CanBeginLock(mu)
    /\ mu' = [mu EXCEPT !.writer = TRUE]
    /\ pc' = [pc EXCEPT ![t] = IF pc[t] = "add_lock" THEN "add_wait" ELSE "rem_wait"]
    /\ UNCHANGED <<listeners, order, id, local, returned, freed>>

\* Add from the return of cm.mu.Lock() up to cm.mu.Unlock().
AddBody(t) ==
    /\ pc[t] = "add_wait"
    /\ CanLock(mu)
    /\ listeners' = MapPut(listeners, id, listenerHolder(local[t].callback, local[t].mode))
    /\ order' = AppendOrder(order, id)
    /\ id' = NextId(id)
    /\ local' = [local EXCEPT ![t].lid = id, ![t].pre = Snapshot]
    /\ pc' = [pc EXCEPT ![t] = "add_unlock"]
    /\ UNCHANGED <<mu, returned, freed>>

\* cm.mu.Unlock() in Add.
AddUnlock(t) ==
    /\ pc[t] = "add_unlock"
    /\ mu' = [mu EXCEPT !.writer = FALSE]
    /\ pc' = [pc EXCEPT ![t] = "add_return"]
    /\ UNCHANGED <<listeners, order, id, local, returned, freed>>

\* return id
AddReturn(t) ==
    /\ pc[t] = "add_return"
    /\ returned' = Append(returned, local[t].lid)
    /\ local' = [local EXCEPT ![t] = ReturnLocal(t)]
    /\ pc' = [pc EXCEPT ![t] = ReturnPc(t)]
    /\ UNCHANGED <<listeners, order, id, mu, freed>>

\* ---------------------------------------------------------------- Remove

\* Remove from the return of cm.mu.Lock() up to cm.mu.Unlock(): the map
\* entry is deleted, then the order is filtered.  When the filter panics the
\* call ends there, after the delete, before the assignment to cm.order and
\* before the Unlock (which is not deferred).
RemoveBody(t) ==
    /\ pc[t] = "rem_wait"
    /\ CanLock(mu)
    /\ LET r == DeleteFunc(order, local[t].index)
       IN  /\ listeners' = MapDelete(listeners, local[t].index)
           /\ order' = r.order
           /\ pc' = [pc EXCEPT ![t] = IF r.panic THEN "panicked" ELSE "rem_unlock"]
    /\ freed' = freed \cup (DOMAIN listeners \cap {local[t].index})
    /\ local' = [local EXCEPT ![t].pre = Snapshot]
    /\ UNCHANGED <<id, mu, returned>>

\* cm.mu.Unlock() in Remove, and the return.
RemoveUnlock(t) ==
    /\ pc[t] = "rem_unlock"
    /\ mu' = [mu EXCEPT !.writer = FALSE]
    /\ local' = [local EXCEPT ![t] = ReturnLocal(t)]
    /\ pc' = [pc EXCEPT ![t] = ReturnPc(t)]
    /\ UNCHANGED <<listeners, order, id, returned, freed>>

\* ------------------------------------------------- InvokePre, InvokePost

\* A goroutine calls InvokePre(invokeFunc).
CallInvokePre(t) ==
    /\ Free(t)
    /\ pc' = [pc EXCEPT ![t] = "pre_rlock"]
    /\ local' = [local EXCEPT ![t] = [NoCall EXCEPT !.op = "InvokePre"]]
    /\ UNCHANGED <<listeners, order, id, mu, returned, freed>>

\* A goroutine calls InvokePost(invokeFunc).
CallInvokePost(t) ==
    /\ Free(t)
    /\ pc' = [pc EXCEPT ![t] = "post_rlock"]
    /\ local' = [local EXCEPT ![t] = [NoCall EXCEPT !.op = "InvokePost"]]
    /\ UNCHANGED <<listeners, order, id, mu, returned, freed>>

\* cm.mu.RLock(); finalResult := Continue; the range expression cm.order is
\* evaluated once, here.
RLock(t) ==
    /\ pc[t] \in {"pre_rlock", "post_rlock"}
    /\ CanRLock(mu)
    /\ mu' = [mu EXCEPT !.readers = @ + 1]
    /\ local' = [local EXCEPT ![t].rng = order, ![t].pos = 0,
                              ![t].finalResult = Continue, ![t].pre = Snapshot]
    /\ pc' = [pc EXCEPT ![t] = IF pc[t] = "pre_rlock" THEN "pre_loop" ELSE "post_loop"]
    /\ UNCHANGED <<listeners, order, id, returned, freed>>

\* idx of the current iteration, and holder := cm.listeners[idx]
Idx(t) == local[t].rng[local[t].pos + 1]
Holder(t) == MapGet(listeners, Idx(t))

\* A loop that ends one element early.
RangeDoneEarly(pos, rng) == pos >= Len(rng) - 1

\* for _, idx := range cm.order: the loop ends after the last element
RangeDone(pos, rng) == pos >= Len(rng)

InLoop(t, at) == pc[t] = at /\ ~RangeDone(local[t].pos, local[t].rng)

\* What a pass records about a holder it hands to invokeFunc.
Call(t) ==
    [id |-> Idx(t), callback |-> Holder(t).callback, mode |-> Holder(t).mode,
     registered |-> Idx(t) \in DOMAIN listeners]

\* InvokePre: an iteration whose holder is not Pre.
PreSkip(t) ==
    /\ InLoop(t, "pre_loop")
    /\ ~IsPre(Holder(t))
    /\ local' = [local EXCEPT ![t].pos = @ + 1]
    /\ UNCHANGED <<listeners, order, id, mu, pc, returned, freed>>

\* InvokePre: an iteration whose holder is Pre; invokeFunc returns result.
PreInvoke(t, result) ==
    /\ InLoop(t, "pre_loop")
    /\ IsPre(Holder(t))
    /\ LET fr == MaxResult(local[t].finalResult, result)
       IN  /\ local' = [local EXCEPT ![t].calls = Append(@, Call(t)),
                                     ![t].results = Append(@, result),
                                     ![t].finalResult = fr,
                                     ![t].pos = IF ShouldBreak(fr) THEN @ ELSE @ + 1]
           /\ pc' = [pc EXCEPT ![t] = IF ShouldBreak(fr) THEN "pre_runlock" ELSE "pre_loop"]
    /\ UNCHANGED <<listeners, order, id, mu, returned, freed>>

\* InvokePre: the range is exhausted.
PreEnd(t) ==
    /\ pc[t] = "pre_loop"
    /\ RangeDone(local[t].pos, local[t].rng)
    /\ pc' = [pc EXCEPT ![t] = "pre_runlock"]
    /\ UNCHANGED <<listeners, order, id, mu, local, returned, freed>>

\* InvokePost: an iteration whose holder is not Post.
PostSkip(t) ==
    /\ InLoop(t, "post_loop")
    /\ ~IsPost(Holder(t))
    /\ local' = [local EXCEPT ![t].pos = @ + 1]
    /\ UNCHANGED <<listeners, order, id, mu, pc, returned, freed>>

\* InvokePost: an iteration whose holder is Post; invokeFunc returns.
PostInvoke(t) ==
    /\ InLoop(t, "post_loop")
    /\ IsPost(Holder(t))
    /\ local' = [local EXCEPT ![t].calls = Append(@, Call(t)), ![t].pos = @ + 1]
    /\ UNCHANGED <<listeners, order, id, mu, pc, returned, freed>>

\* InvokePost: the range is exhausted.
PostEnd(t) ==
    /\ pc[t] = "post_loop"
    /\ RangeDone(local[t].pos, local[t].rng)
    /\ pc' = [pc EXCEPT ![t] = "post_runlock"]
    /\ UNCHANGED <<listeners, order, id, mu, local, returned, freed>>

\* invokeFunc panics instead of returning: the manager recovers nothing, the
\* pass ends inside the loop, before cm.mu.RUnlock().
InvokePanic(t) ==
    /\ \/ InLoop(t, "pre_loop") /\ IsPre(Holder(t))
       \/ InLoop(t, "post_loop") /\ IsPost(Holder(t))
    /\ local' = [local EXCEPT ![t].calls = Append(@, Call(t))]
    /\ pc' = [pc EXCEPT ![t] = "panicked"]
    /\ UNCHANGED <<listeners, order, id, mu, returned, freed>>

\* -------------------------------------------- calls made by a callback

\* invokeFunc has been called for the holder of the current iteration and
\* has not returned: the callback is running.
InCallback(t) ==
    \/ InLoop(t, "pre_loop") /\ IsPre(Holder(t))
    \/ InLoop(t, "post_loop") /\ IsPost(Holder(t))

\* How many passes the call with locals l is nested in.
RECURSIVE Depth(_)
Depth(l) == IF l.outer = <<>> THEN 0 ELSE 1 + Depth(l.outer[1].local)

\* The locals of a call made by the running callback of t.
NestedCall(t) ==
    [NoCall EXCEPT !.outer = <<[pc |-> pc[t], local |-> local[t]]>>]

\* The running callback calls Add(callback, mode) on the same manager.
NestedCallAdd(t, callback, mode) ==
    /\ InCallback(t)
    /\ Depth(local[t]) < MaxDepth
    /\ pc' = [pc EXCEPT ![t] = "add_lock"]
    /\ local' = [local EXCEPT ![t] =
                    [NestedCall(t) EXCEPT !.op = "Add", !.callback = callback,
                                          !.mode = mode, !.seen = Range(returned)]]
    /\ UNCHANGED <<listeners, order, id, mu, returned, freed>>

\* The running callback calls Remove(index) on the same manager.
NestedCallRemove(t, index) ==
    /\ InCallback(t)
    /\ Depth(local[t]) < MaxDepth
    /\ pc' = [pc EXCEPT ![t] = "rem_lock"]
    /\ local' = [local EXCEPT ![t] =
                    [NestedCall(t) EXCEPT !.op = "Remove", !.index = index]]
    /\ UNCHANGED <<listeners, order, id, mu, returned, freed>>

\* The running callback calls InvokePre on the same manager.
NestedCallInvokePre(t) ==
    /\ InCallback(t)
    /\ Depth(local[t]) < MaxDepth
    /\ pc' = [pc EXCEPT ![t] = "pre_rlock"]
    /\ local' = [local EXCEPT ![t] = [NestedCall(t) EXCEPT !.op = "InvokePre"]]
    /\ UNCHANGED <<listeners, order, id, mu, returned, freed>>

\* The running callback calls InvokePost on the same manager.
NestedCallInvokePost(t) ==
    /\ InCallback(t)
    /\ Depth(local[t]) < MaxDepth
    /\ pc' = [pc EXCEPT ![t] = "post_rlock"]
    /\ local' = [local EXCEPT ![t] = [NestedCall(t) EXCEPT !.op = "InvokePost"]]
    /\ UNCHANGED <<listeners, order, id, mu, returned, freed>>

\* cm.mu.RUnlock(), and the return (of finalResult, in InvokePre).
RUnlock(t) ==
    /\ pc[t] \in {"pre_runlock", "post_runlock"}
    /\ mu' = [mu EXCEPT !.readers = @ - 1]
    /\ local' = [local EXCEPT ![t] = ReturnLocal(t)]
    /\ pc' = [pc EXCEPT ![t] = ReturnPc(t)]
    /\ UNCHANGED <<listeners, order, id, returned, freed>>

\* ------------------------------------------------------ the specification

\* What goroutine t can do next.  Its callers issue at most maxAdds Add
\* calls, and call Remove with an ID Add can hand out or with the next one.
ThreadStep(t, maxAdds) ==
    \/ /\ AddsIssued < maxAdds
       /\ \E callback \in Callbacks, mode \in HookMode : CallAdd(t, callback, mode)
    \/ LockBegin(t)
    \/ AddBody(t)
    \/ AddUnlock(t)
    \/ AddReturn(t)
    \/ \E index \in 0..maxAdds : CallRemove(t, index)
    \/ RemoveBody(t)
    \/ RemoveUnlock(t)
    \/ CallInvokePre(t)
    \/ CallInvokePost(t)
    \/ RLock(t)
    \/ PreSkip(t)
    \/ \E result \in PluginResult : PreInvoke(t, result)
    \/ PreEnd(t)
    \/ PostSkip(t)
    \/ PostInvoke(t)
    \/ PostEnd(t)
    \/ InvokePanic(t)
    \/ RUnlock(t)

\* Several goroutines use the manager.
Next == \E t \in Threads : ThreadStep(t, MaxAdds)

Spec == Init /\ [][Next]_vars

\* One goroutine uses the manager, call after call.
NextSeq == ThreadStep("t1", MaxSeqAdds)

SpecSeq == Init /\ [][NextSeq]_vars

\* What the running callback of goroutine t can do on the manager.  The
\* callbacks issue one Add call more than the goroutines' callers.
CallbackStep(t, maxAdds) ==
    \/ /\ AddsIssued <= maxAdds
       /\ \E callback \in Callbacks, mode \in HookMode : NestedCallAdd(t, callback, mode)
    \/ \E index \in 0..maxAdds : NestedCallRemove(t, index)
    \/ NestedCallInvokePre(t)
    \/ NestedCallInvokePost(t)

\* Several goroutines use the manager, and so do the callbacks they run.
NextReentrant ==
    \E t \in Threads :
        ThreadStep(t, MaxReentrantAdds) \/ CallbackStep(t, MaxReentrantAdds)

SpecReentrant == Init /\ [][NextReentrant]_vars

\* ------------------------------------------------------------ properties

\* The IDs of the holders a pass has handed to invokeFunc, in that order.
CallIds(t) == [k \in 1..Len(local[t].calls) |-> local[t].calls[k].id]

\* t has run the body of Remove and still holds the lock: the manager is as
\* this Remove left it (for good, when the filter panicked).
AfterRemove(t) ==
    local[t].op = "Remove" /\ pc[t] \in {"rem_unlock", "panicked"}

\* t is inside InvokePre / InvokePost, between RLock and RUnlock, or left it
\* by a panic of invokeFunc.
InPre(t) ==
    local[t].op = "InvokePre" /\ pc[t] \in {"pre_loop", "pre_runlock", "panicked"}
InPost(t) ==
    local[t].op = "InvokePost" /\ pc[t] \in {"post_loop", "post_runlock", "panicked"}

\* t holds the exclusive lock / a shared lock.
InWrite(t) ==
    \/ pc[t] \in {"add_unlock", "rem_unlock"}
    \/ pc[t] = "panicked" /\ local[t].op = "Remove"
InRead(t) == InPre(t) \/ InPost(t)

\* No call is in progress.
Quiescent == \A t \in Threads : pc[t] \in {"idle", "panicked"}

\* C1 (as claimed): Remove(id) of a registered id leaves the map without
\* exactly that id and the order without exactly that id, the other entries
\* and the relative order of the other IDs as they were.
C1_RemoveByValue ==
    \A t \in Threads :
        AfterRemove(t) /\ local[t].index \in DOMAIN local[t].pre.listeners
        => /\ listeners = MapDelete(local[t].pre.listeners, local[t].index)
           /\ order = Without(local[t].pre.order, local[t].index)

\* C2 (as claimed): Remove of an ID that is not registered (never added, or
\* removed before) ends without an error and leaves the map, the order and
\* the ID counter as they were.
C2_NoOpRemoval ==
    \A t \in Threads :
        AfterRemove(t) /\ local[t].index \notin DOMAIN local[t].pre.listeners
        => /\ pc[t] # "panicked"
           /\ Snapshot = local[t].pre

\* C3 (as claimed): whenever no call is in progress, the IDs in the order
\* sequence are exactly the keys of the listener map.
C3_MapOrderConsistent ==
    Quiescent => Range(order) = DOMAIN listeners

\* The IDs Add has handed out: the returned ones and those of the Add calls
\* that have taken their ID and not returned yet.
HandedOut ==
    Range(returned) \cup
        {local[t].lid : t \in {u \in Threads : pc[u] \in {"add_unlock", "add_return"}}}

\* C4: the IDs Add returns are pairwise different and are 0, 1, 2, ... (the
\* first one handed out is 0); an Add returns an ID greater than every ID
\* returned before that Add was called; the ID an Add takes was not freed by
\* an earlier Remove.
C4_IdsUniqueIncreasing ==
    /\ \A i, j \in 1..Len(returned) : i # j => returned[i] # returned[j]
    /\ HandedOut = 0..(Cardinality(HandedOut) - 1)
    /\ \A t \in Threads :
        /\ pc[t] \in {"add_unlock", "add_return"}
           => /\ local[t].lid \notin Range(returned)
              /\ \A x \in local[t].seen : local[t].lid > x
        /\ pc[t] = "add_unlock" => local[t].lid \notin freed

\* An Add called after an earlier Add returned and after a Remove freed an
\* ID is about to return its own, new ID.
C4_Witness ==
    \E t \in Threads :
        /\ pc[t] = "add_return"
        /\ local[t].seen # {}
        /\ freed # {}
        /\ \E x \in freed : x < local[t].lid

\* C5: the value InvokePre returns is the greatest of Continue and the
\* results invokeFunc returned in that pass; on a manager without listeners
\* InvokePre returns Continue and neither pass calls invokeFunc.
C5_ResultIsMaximum ==
    \A t \in Threads :
        /\ pc[t] = "pre_runlock"
           => local[t].finalResult = SetMax({Continue} \cup Range(local[t].results))
        /\ pc[t] \in {"pre_runlock", "post_runlock"}
           /\ DOMAIN local[t].pre.listeners = {}
           => local[t].calls = <<>> /\ local[t].finalResult = Continue

\* InvokePre is about to return Changed after results Changed, Continue.
C5_Witness ==
    \E t \in Threads :
        /\ pc[t] = "pre_runlock"
        /\ Len(local[t].results) >= 2
        /\ local[t].results[1] = Changed
        /\ local[t].results[Len(local[t].results)] = Continue
        /\ local[t].finalResult = Changed

\* C6: in an InvokePre pass every call of invokeFunc that is followed by
\* another one returned less than Handled; and a pass that ends without a
\* result of Handled or Stop has called invokeFunc for every Pre listener
\* of the order, once each.
C6_ShortCircuit ==
    \A t \in Threads :
        /\ InPre(t)
           => \A k \in 1..(Len(local[t].calls) - 1) :
                 k <= Len(local[t].results) /\ local[t].results[k] < Handled
        /\ pc[t] = "pre_runlock"
           /\ (\A k \in 1..Len(local[t].results) : local[t].results[k] < Handled)
           => CallIds(t) = SelectIds(local[t].pre.order, local[t].pre.listeners, Pre)

\* One pass stopped at Handled or Stop before a later Pre listener, another
\* went through two Pre listeners of which one returned Changed.
C6_Witness ==
    \E t, u \in Threads :
        /\ pc[t] = "pre_runlock"
        /\ local[t].finalResult >= Handled
        /\ Len(local[t].calls) <
              Len(SelectIds(local[t].pre.order, local[t].pre.listeners, Pre))
        /\ pc[u] = "pre_runlock"
        /\ local[u].finalResult = Changed
        /\ Len(local[u].calls) >= 2

\* The mode a pass selects.
PassMode(t) == IF local[t].op = "InvokePre" THEN Pre ELSE Post

\* C7: a pass hands the listeners of its mode to invokeFunc in the order of
\* the order sequence, which is the order of registration (increasing ID).
C7_RegistrationOrder ==
    \A t \in Threads :
        InRead(t)
        => /\ \A i, j \in 1..Len(local[t].calls) :
                 i < j => local[t].calls[i].id < local[t].calls[j].id
           /\ LET all == SelectIds(local[t].pre.order, local[t].pre.listeners, PassMode(t))
              IN  /\ Len(local[t].calls) <= Len(all)
                  /\ CallIds(t) = SubSeq(all, 1, Len(local[t].calls))

\* A pass has invoked two listeners of its mode that were registered before
\* and after a listener of the other mode.
C7_Witness ==
    \E t \in Threads :
        /\ InRead(t)
        /\ Len(local[t].calls) >= 2
        /\ \E i \in Range(local[t].pre.order) :
              /\ local[t].pre.listeners[i].mode # PassMode(t)
              /\ local[t].calls[1].id < i
              /\ i < local[t].calls[2].id

\* C8: every holder a pass hands to invokeFunc is the holder of a listener
\* registered at that moment, with the pass's mode and the callback it was
\* registered with: InvokePre invokes no Post listener, InvokePost no Pre
\* listener, and neither invokes the zero holder of an ID that has no entry.
C8_PhaseIsolation ==
    \A t \in Threads :
        InRead(t)
        => \A k \in 1..Len(local[t].calls) :
              LET c == local[t].calls[k]
              IN  /\ c.registered
                  /\ c.mode = PassMode(t)
                  /\ c.callback # ZeroCallback
                  /\ c.id \in DOMAIN listeners
                  /\ listeners[c.id] = listenerHolder(c.callback, c.mode)

\* A pass has invoked a listener while the manager holds listeners of both
\* modes and an ID has been removed.
C8_Witness ==
    \E t \in Threads :
        /\ InRead(t)
        /\ local[t].calls # <<>>
        /\ freed # {}
        /\ \E i, j \in DOMAIN listeners :
              listeners[i].mode = Pre /\ listeners[j].mode = Post

C10_WriterExclusion ==
    \A t \in Threads :
        /\ InWrite(t) => \A u \in Threads \ {t} : ~InWrite(u) /\ ~InRead(u)
        /\ InRead(t) => Snapshot = local[t].pre

\* An Add or Remove is inside its critical section while another goroutine
\* has called InvokePre or InvokePost and waits for the lock.
C10_Witness ==
    \E t, u \in Threads :
        /\ pc[t] \in {"add_unlock", "rem_unlock"}
        /\ pc[u] \in {"pre_rlock", "post_rlock"}

\* The number of positions of s that hold x.
Occurrences(s, x) == Cardinality({k \in 1..Len(s) : s[k] = x})

\* C11 (as claimed): in every interleaving of Add and Remove calls of the
\* goroutines no two Add calls return the same ID, every ID handed out and
\* not removed is in the map and exactly once in the order, and every
\* removed ID is in neither.
C11_ConcurrentRegistration ==
    /\ \A i, j \in 1..Len(returned) : i # j => returned[i] # returned[j]
    /\ \A x \in HandedOut \ freed :
          x \in DOMAIN listeners /\ Occurrences(order, x) = 1
    /\ \A x \in freed :
          x \notin DOMAIN listeners /\ Occurrences(order, x) = 0

\* t has called Add or Remove and has not entered its critical section.
WriterWaiting(t) == pc[t] \in {"add_lock", "add_wait", "rem_lock", "rem_wait"}

\* C13: every pass in progress holds one share of the read lock, so passes
\* run side by side; and an Add or Remove that finds a pass in progress
\* stays before its critical section in every step taken while a pass is in
\* progress.
C13_SharedRead ==
    /\ [](mu.readers = Cardinality({t \in Threads : InRead(t)}))
    /\ [][\A t \in Threads :
             WriterWaiting(t) /\ (\E u \in Threads : InRead(u))
             => WriterWaiting(t)']_vars

\* Two passes are inside their read-locked sections at the same time, each
\* having invoked a listener.
C13_Witness ==
    \E t, u \in Threads :
        /\ t # u
        /\ pc[t] \in {"pre_loop", "post_loop"} /\ local[t].calls # <<>>
        /\ pc[u] \in {"pre_loop", "post_loop"} /\ local[u].calls # <<>>
        /\ mu.readers = 2

\* No invoke function has panicked.
InvokeFuncsReturn ==
    \A t \in Threads : ~(pc[t] = "panicked" /\ local[t].op \in {"InvokePre", "InvokePost"})

\* t waits for the lock.
Waiting(t) == WriterWaiting(t) \/ pc[t] \in {"pre_rlock", "post_rlock"}

\* C14 (as claimed): as long as the invoke functions return, no call ends in
\* an error and no call waits for a lock that will never be released: no
\* Remove has panicked, leaving the lock held for good.
C14_EveryCallReturns ==
    InvokeFuncsReturn
    => \A t \in Threads :
          /\ pc[t] # "panicked"
          /\ Waiting(t) => \A u \in Threads : pc[u] # "panicked"

\* C15: while no entry has been removed every ID in the order equals its
\* position; a Remove of a registered ID in such a state ends without a
\* panic and leaves the map and the order without exactly that ID.
C15_RemoveBeforeAnyRemoval ==
    /\ freed = {} => \A k \in 1..Len(order) : order[k] = k - 1
    /\ \A t \in Threads :
          /\ AfterRemove(t)
          /\ local[t].index \in DOMAIN local[t].pre.listeners
          /\ freed = {local[t].index}
          => /\ pc[t] = "rem_unlock"
             /\ listeners = MapDelete(local[t].pre.listeners, local[t].index)
             /\ order = Without(local[t].pre.order, local[t].index)

\* The first Remove of a registered ID has taken an ID out of the middle of
\* an order of three.
C15_Witness ==
    \E t \in Threads :
        /\ pc[t] = "rem_unlock"
        /\ freed = {local[t].index}
        /\ local[t].pre.order = <<0, 1, 2>>
        /\ order = <<0, 2>>

\* C16: Add puts its ID at the end of the order and its holder into the
\* map and leaves the other entries as they were; a pass leaves the map,
\* the order and the ID counter as they were; and no step changes the
\* holder (callback, mode) of an ID that stays in the map.
C16_Frame ==
    /\ [](\A t \in Threads :
            /\ pc[t] = "add_unlock"
               => /\ order = Append(local[t].pre.order, local[t].lid)
                  /\ listeners = MapPut(local[t].pre.listeners, local[t].lid,
                                        listenerHolder(local[t].callback, local[t].mode))
                  /\ local[t].lid \notin DOMAIN local[t].pre.listeners
                  /\ \A k \in DOMAIN local[t].pre.listeners :
                        listeners[k] = local[t].pre.listeners[k]
            /\ InRead(t) => Snapshot = local[t].pre)
    /\ [][\A k \in (DOMAIN listeners) \cap (DOMAIN listeners') :
             listeners'[k] = listeners[k]]_vars

\* An Add has put a third listener behind two of the other mode.
C16_Witness ==
    \E t \in Threads :
        /\ pc[t] = "add_unlock"
        /\ Len(local[t].pre.order) = 2
        /\ \A k \in DOMAIN local[t].pre.listeners :
              local[t].pre.listeners[k].mode # local[t].mode

\* C17 (as claimed): whenever no call is in progress the lock is free, and
\* the map and the order hold the same IDs.
C17_LockReleased ==
    Quiescent => mu = NewRWMutex /\ Range(order) = DOMAIN listeners

\* C18 (as claimed): the order is strictly increasing, its IDs are at least
\* 0 and below the ID counter, the ID counter is the number of Add calls
\* that have taken their ID, and a Remove leaves the counter as it was.
C18_OrderIncreasing ==
    /\ \A i, j \in 1..Len(order) : i < j => order[i] < order[j]
    /\ \A k \in 1..Len(order) : 0 <= order[k] /\ order[k] < id
    /\ id = Len(returned)
            + Cardinality({t \in Threads : pc[t] \in {"add_unlock", "add_return"}})
    /\ \A t \in Threads : AfterRemove(t) => id = local[t].pre.id

\* The current call of t was made by a callback that a pass of t is running.
Nested(t) == local[t].outer # <<>>

\* The current call of t is an Add or Remove made by a callback, and it has
\* not entered its critical section.
NestedWriteWaits(t) ==
    /\ Nested(t)
    /\ local[t].op \in {"Add", "Remove"}
    /\ WriterWaiting(t)

\* C12: an Add or Remove called by a callback of a running pass never enters
\* its critical section (so it never returns, and the pass that runs the
\* callback never goes on): the pass keeps its share of the read lock, the
\* call waits for it, and it is still waiting after every step.
C12_ReentrantWriteDeadlocks ==
    /\ [](\A t \in Threads :
            Nested(t) /\ local[t].op \in {"Add", "Remove"}
            => NestedWriteWaits(t) /\ mu.readers >= 1)
    /\ [][\A t \in Threads :
             NestedWriteWaits(t)
             => NestedWriteWaits(t)' /\ local'[t].outer = local[t].outer]_vars

\* A callback's Add has become the pending writer while the pass that runs
\* the callback holds the read lock: nothing kept it from being called.
C12_Witness ==
    \E t \in Threads :
        /\ NestedWriteWaits(t)
        /\ local[t].op = "Add"
        /\ pc[t] = "add_wait"
        /\ ~CanLock(mu)

\* The current call of t is an InvokePre or InvokePost made by a callback,
\* at its RLock.
NestedAtRLock(t) == Nested(t) /\ pc[t] \in {"pre_rlock", "post_rlock"}

\* C19 (as claimed): a pass called by a callback always gets on: at its
\* RLock it can take the read lock, or the writer that keeps it out is
\* inside its critical section and will leave it.
C19_NestedInvokeCompletes ==
    \A t \in Threads :
        NestedAtRLock(t)
        => \/ CanRLock(mu)
           \/ \E u \in Threads : pc[u] \in {"add_unlock", "rem_unlock"}

\* t's nested pass is kept out by a pending writer that waits for the
\* readers, among them the pass that runs t's callback.
NestedBehindWriter(t) ==
    /\ NestedAtRLock(t)
    /\ ~CanRLock(mu)
    /\ ~CanLock(mu)
    /\ \E u \in Threads \ {t} : pc[u] \in {"add_wait", "rem_wait"}

\* C19 (amended): a pass called by a callback takes the read lock when no
\* Add or Remove is pending; when it cannot, it is behind a pending writer
\* of another goroutine that waits for the readers, and it stays there after
\* every step.
C19_NestedInvokeUnlessWriterWaits ==
    /\ [](\A t \in Threads :
            NestedAtRLock(t)
            => IF mu.writer THEN NestedBehindWriter(t) ELSE ENABLED RLock(t))
    /\ [][\A t \in Threads :
             NestedBehindWriter(t) => NestedBehindWriter(t)']_vars

\* A callback has called InvokePre or InvokePost while another goroutine's
\* Add or Remove waits for the pass that runs the callback.
C19_Witness ==
    \E t \in Threads : NestedBehindWriter(t) /\ local[t].outer[1].local.calls = <<>>
====
